---- MODULE Spec2Model ----
(***************************************************************************)
(* The Flappy Bird reducer (scheduled-timer variant): the State value, the *)
(* pure functions tick / flap / generateBounceVelocity / RNG.hash, and the *)
(* event streams merged by state$ (interval ticks, keyboard, one-shot      *)
(* spawn timers).                                                          *)
(*                                                                         *)
(* Numbers.  birdY and birdVelocity are kept in fixed point, Unit units    *)
(* per pixel (GRAVITY 0.5 px is exact).  gameTime and invulnerableUntil    *)
(* are IEEE-754 doubles, held exactly as integers in units of 2^-63 s.     *)
(* pipe.x is in pixels.  The numbers parseFloat reads from the level text  *)
(* (gapY, gapHeight, time) are kept in thousandths, so pipe.time is the    *)
(* delay of its timer in milliseconds.                                     *)
(***************************************************************************)
EXTENDS Integers, Sequences, FiniteSets, TLC

(***************************************************************************)
(* Program constants                                                       *)
(***************************************************************************)
CANVAS_WIDTH == 600
CANVAS_HEIGHT == 400
BIRB_WIDTH == 42
BIRB_HEIGHT == 30
PIPE_WIDTH == 50
TICK_RATE_MS == 20
FLAP_STRENGTH == -8
BIRD_X == 100
PIPE_SPEED == 2
INITIAL_SEED == 12345
INITIAL_LIVES == 3
INVULNERABLE_MS == 2000

\* fixed-point resolution of birdY / birdVelocity (units per pixel)
Unit == 1000
GRAVITY == Unit \div 2

(***************************************************************************)
(* Bounds of the model                                                     *)
(***************************************************************************)
\* number of interval emissions explored
MaxTicks == 300
\* keyboard events arrive only when the interval count is a multiple of this
KeyEvery == 42
MaxFlaps == 2
MaxPauses == 2
MaxRestarts == 1

(***************************************************************************)
(* Arithmetic on numbers wider than the checker's integers: little-endian  *)
(* sequences of 15-bit limbs.                                              *)
(***************************************************************************)
Base == 2^15

Limbs(x) == << x % Base, (x \div Base) % Base, x \div (Base * Base) >>

RECURSIVE Carry(_, _)
\* normalise a limb sequence so that every limb is below Base
Carry(l, c) ==
    IF l = << >> THEN (IF c = 0 THEN << >> ELSE << c >>)
    ELSE << (Head(l) + c) % Base >> \o Carry(Tail(l), (Head(l) + c) \div Base)

\* product of two 3-limb numbers (each below 2^31), as 5 limbs
MulLimbs(x, y) ==
    LET r == Carry(<< x[1] * y[1],
                      x[1] * y[2] + x[2] * y[1],
                      x[1] * y[3] + x[2] * y[2] + x[3] * y[1],
                      x[2] * y[3] + x[3] * y[2],
                      x[3] * y[3] >>, 0)
    IN  r

RECURSIVE BitLen(_)
BitLen(n) == IF n = 0 THEN 0 ELSE 1 + BitLen(n \div 2)

RECURSIVE Pow2(_)
Pow2(e) == IF e = 0 THEN 1 ELSE 2 * Pow2(e - 1)

RECURSIVE TopLimb(_, _)
TopLimb(l, i) == IF i = 0 THEN 0 ELSE IF l[i] # 0 THEN i ELSE TopLimb(l, i - 1)

\* number of significant bits of a limb sequence
LimbBits(l) ==
    LET t == TopLimb(l, Len(l))
    IN  IF t = 0 THEN 0 ELSE BitLen(l[t]) + 15 * (t - 1)

\* a limb sequence plus a small non-negative integer
AddSmall(l, k) == Carry(<< l[1] + k >> \o Tail(l), 0)

\* IEEE-754 double rounding (53-bit significand, ties to even) of a
\* non-negative integer of at most 75 bits given as limbs; `sticky` says
\* that the exact value lies strictly above the integer
RoundSticky(l, sticky) ==
    LET e == LimbBits(l) - 53
    IN  IF e <= 0 THEN l
        ELSE LET u    == Pow2(e)
                 lo   == l[1] + l[2] * Base
                 r    == lo % u
                 odd  == (lo \div u) % 2 = 1
                 up   == r * 2 > u \/ (r * 2 = u /\ (sticky \/ odd))
                 new  == lo - r + (IF up THEN u ELSE 0)
             IN  Carry(<< new % Base, new \div Base >> \o Tail(Tail(l)), 0)

RoundDouble(l) == RoundSticky(l, FALSE)

\* the low 31 bits of a limb sequence
Low31(l) == l[1] + l[2] * Base + (l[3] % 2) * Base * Base

(***************************************************************************)
(* RNG                                                                     *)
(***************************************************************************)
RNG_a == 1103515245
RNG_c == 12345
\* RNG.m - 1 = 2^31 - 1
RNG_m1 == 2147483647

\* (RNG.a * seed + RNG.c) % RNG.m in double arithmetic: the product and the
\* sum are each rounded to a double, the remainder is exact
hash(seed) ==
    Low31(RoundDouble(AddSmall(RoundDouble(MulLimbs(Limbs(RNG_a), Limbs(seed))), RNG_c)))

(***************************************************************************)
(* Doubles: a non-negative double below 4096 is held as the 5-limb integer *)
(* value * 2^63                                                            *)
(***************************************************************************)
DZero == << 0, 0, 0, 0, 0 >>

AddLimbs(a, b) == Carry([i \in 1..5 |-> a[i] + b[i]], 0)

\* a + b in double arithmetic
DAdd(a, b) == RoundDouble(AddLimbs(a, b))

RECURSIVE CmpLimbs(_, _, _)
\* -1, 0, 1 as a is below, equal to, above b, comparing limbs i..1
CmpLimbs(a, b, i) ==
    IF i = 0 THEN 0
    ELSE IF a[i] < b[i] THEN -1
    ELSE IF a[i] > b[i] THEN 1
    ELSE CmpLimbs(a, b, i - 1)

DGeq(a, b) == CmpLimbs(a, b, 5) >= 0

RECURSIVE DivSmall(_, _, _, _)
\* limbs i..1 of l divided by the small number d with incoming remainder
\* rem: << quotient limbs, remainder >>
DivSmall(l, d, i, rem) ==
    IF i = 0 THEN << << >>, rem >>
    ELSE LET cur  == rem * Base + l[i]
             rest == DivSmall(l, d, i - 1, cur % d)
         IN  << Append(rest[1], cur \div d), rest[2] >>

\* the double nearest to v / 1000, for 0 <= v < 2^27: v * 2^63 / 1000,
\* correctly rounded
DFromMilli(v) ==
    LET n == << 0, 0, 0, 0, (8 * v) % Base, (8 * v) \div Base >>
        q == DivSmall(n, 1000, 6, 0)
    IN  SubSeq(RoundSticky(q[1], q[2] # 0), 1, 5)

\* a - b for limb sequences with a >= b
SubLimbs(a, b) ==
    LET RECURSIVE Sub(_, _)
        Sub(i, borrow) ==
            IF i > 5 THEN << >>
            ELSE LET v == a[i] - b[i] - borrow
                 IN  << IF v < 0 THEN v + Base ELSE v >> \o Sub(i + 1, IF v < 0 THEN 1 ELSE 0)
    IN  Sub(1, 0)

\* l * k for a small k, as 5 limbs
MulSmall(l, k) == SubSeq(Carry([i \in 1..5 |-> l[i] * k], 0), 1, 5)

RECURSIVE DivLimbs(_, _, _)
\* << floor(t / d), t mod d >> for a quotient below 2^(i+1)
DivLimbs(t, d, i) ==
    IF i < 0 THEN << 0, t >>
    ELSE LET dd == MulSmall(d, Pow2(i))
         IN  IF CmpLimbs(t, dd, 5) >= 0
             THEN LET r == DivLimbs(SubLimbs(t, dd), d, i - 1)
                  IN  << Pow2(i) + r[1], r[2] >>
             ELSE DivLimbs(t, d, i - 1)

\* floor(l / 2^n) for a result below 2^30
ShiftRight(l, n) ==
    LET k == n \div 15
        b == n % 15
        limb(i) == IF i <= Len(l) THEN l[i] ELSE 0
    IN  limb(k + 1) \div Pow2(b) + limb(k + 2) * Pow2(15 - b)

\* Math.floor(t / d) with the quotient rounded to a double first: the
\* quotient rounds up to the next integer when it is within half a unit in
\* the last place of it.  For d of 58 bits and a quotient below 2^14.
DFloorDiv(t, d) ==
    LET qr == DivLimbs(t, d, 13)
        q  == qr[1]
        f  == 53 - BitLen(q)
        c  == SubLimbs(d, qr[2])
    IN  IF LimbBits(c) <= 30 /\ c[1] + c[2] * Base <= ShiftRight(d, f + 1)
        THEN q + 1
        ELSE q

\* the tick duration without the division by 1000
tickSeconds_undivided == DFromMilli(TICK_RATE_MS * 1000)

\* Constants.TICK_RATE_MS / 1000, the seconds one tick adds to gameTime
tickSeconds == DFromMilli(TICK_RATE_MS)

\* floor(d * k / (2^31 - 1)) for 0 <= d < 2^31 and 0 <= k < 2^15
MulDivM1(d, k) ==
    LET n == MulLimbs(Limbs(d), Limbs(k))
        q == (n[3] \div 2) + n[4] * (Base \div 2)
        r == Low31(n)
    IN  q + (IF r >= RNG_m1 - q THEN 1 ELSE 0)

\* (2 * hash) / (RNG.m - 1) - 1, in [-1, 1]: the numerator over RNG.m - 1
scale(h) == h - (RNG_m1 - h)

Abs(x) == IF x < 0 THEN -x ELSE x

\* magnitude 3 + |randomValue| * 3 on the fixed-point grid (truncated)
magnitude(randomValue) == 3 * Unit + MulDivM1(Abs(randomValue), 3 * Unit)

\* [velocity, nextSeed]
generateBounceVelocity(seed, isUpward) ==
    LET nextSeed    == hash(seed)
        randomValue == scale(nextSeed)
        m           == magnitude(randomValue)
    IN  << IF isUpward THEN -m ELSE m, nextSeed >>

(***************************************************************************)
(* State                                                                   *)
(***************************************************************************)
initialState ==
    [ birdY             |-> (CANVAS_HEIGHT * Unit) \div 2 - (BIRB_HEIGHT * Unit) \div 2,
      birdVelocity      |-> 0,
      pipes             |-> << >>,
      gameTime          |-> DZero,
      score             |-> 0,
      gameEnd           |-> FALSE,
      lives             |-> INITIAL_LIVES,
      rngSeed           |-> INITIAL_SEED,
      invulnerableUntil |-> DZero,
      currentPath       |-> << >>,
      ghostPath         |-> << >>,
      paused            |-> FALSE ]

(***************************************************************************)
(* Collision predicates                                                    *)
(***************************************************************************)
checkBirdHitsTop(birdY) == birdY <= 0

checkBirdHitsBottom(birdY) == birdY + BIRB_HEIGHT * Unit >= CANVAS_HEIGHT * Unit

\* (pipe.gapY - pipe.gapHeight / 2) * CANVAS_HEIGHT
gapTop(pipe) == ((2 * pipe.gapY - pipe.gapHeight) * CANVAS_HEIGHT * Unit) \div 2000

\* (pipe.gapY + pipe.gapHeight / 2) * CANVAS_HEIGHT
gapBottom(pipe) == ((2 * pipe.gapY + pipe.gapHeight) * CANVAS_HEIGHT * Unit) \div 2000

checkBirdHitsPipe(birdY, pipe) ==
    LET birdLeft   == BIRD_X
        birdRight  == BIRD_X + BIRB_WIDTH
        birdTop    == birdY
        birdBottom == birdY + BIRB_HEIGHT * Unit
        pipeLeft   == pipe.x
        pipeRight  == pipe.x + PIPE_WIDTH
    IN  IF birdRight > pipeLeft /\ birdLeft < pipeRight
        THEN birdTop < gapTop(pipe) \/ birdBottom > gapBottom(pipe)
        ELSE FALSE

\* the classification with equal centers counted as "top"
getPipeCollisionType_strict(birdY, pipe) ==
    LET birdCenter == birdY + (BIRB_HEIGHT * Unit) \div 2
        gapCenter  == (pipe.gapY * CANVAS_HEIGHT * Unit) \div 1000
    IN  IF birdCenter <= gapCenter THEN "top" ELSE "bottom"

\* the classification with its two outcomes exchanged
getPipeCollisionType_inverted(birdY, pipe) ==
    LET birdCenter == birdY + (BIRB_HEIGHT * Unit) \div 2
        gapCenter  == (pipe.gapY * CANVAS_HEIGHT * Unit) \div 1000
    IN  IF birdCenter < gapCenter THEN "bottom" ELSE "top"

getPipeCollisionType(birdY, pipe) ==
    LET birdCenter == birdY + (BIRB_HEIGHT * Unit) \div 2
        gapCenter  == (pipe.gapY * CANVAS_HEIGHT * Unit) \div 1000
    IN  IF birdCenter < gapCenter THEN "top" ELSE "bottom"

(***************************************************************************)
(* tick                                                                    *)
(***************************************************************************)
\* a minimum that returns its second argument
Min_second(a, b) == b

Min(a, b) == IF a < b THEN a ELSE b
\* a maximum that returns its second argument
Max_second(a, b) == b

Max(a, b) == IF a > b THEN a ELSE b

\* s.pipes.map(x - PIPE_SPEED).filter(x > -PIPE_WIDTH)
movedPipes(pipes) ==
    LET shifted == [i \in 1..Len(pipes) |-> [pipes[i] EXCEPT !.x = @ - PIPE_SPEED]]
        onScreen(pipe) == pipe.x > -PIPE_WIDTH
    IN  SelectSeq(shifted, onScreen)

\* the predicate shared by pipesWithScore and newlyPassed
justPassed(pipe) == ~pipe.passed /\ pipe.x + PIPE_WIDTH < BIRD_X

pipesWithScore_unmarked(moved) == moved

pipesWithScore(moved) ==
    [i \in 1..Len(moved) |->
        IF justPassed(moved[i]) THEN [moved[i] EXCEPT !.passed = TRUE] ELSE moved[i]]

\* no pass is ever counted
newlyPassed_none(moved) == 0

newlyPassed(moved) == Len(SelectSeq(moved, justPassed))

\* completion without the test that the level table is not empty
allPipesPassed_unguarded(allPipesLength, newScore) == newScore >= allPipesLength

allPipesPassed_early(allPipesLength, newScore) ==
    allPipesLength > 0 /\ newScore >= allPipesLength - 1

allPipesPassed(allPipesLength, newScore) ==
    allPipesLength > 0 /\ newScore >= allPipesLength

isVulnerable_always(newTime, s) == TRUE

isVulnerable(newTime, s) == DGeq(newTime, s.invulnerableUntil)

\* no pipe is ever found
hitPipe_never(y, pipes) == 0

\* the last hit in s.pipes order instead of the first
hitPipe_last(y, pipes) ==
    LET hits == {i \in 1..Len(pipes) : checkBirdHitsPipe(y, pipes[i])}
    IN  IF hits = {} THEN 0 ELSE CHOOSE i \in hits : \A j \in hits : i >= j

\* s.pipes.find(pipe => checkBirdHitsPipe(y, pipe)): index of the first hit, 0 if none
hitPipe(y, pipes) ==
    LET hits == {i \in 1..Len(pipes) : checkBirdHitsPipe(y, pipes[i])}
    IN  IF hits = {} THEN 0 ELSE CHOOSE i \in hits : \A j \in hits : i <= j

\* the bounce direction with the pipe consulted before the screen edges
shouldBounceUp_pipeFirst(y, pipes) ==
    IF hitPipe(y, pipes) # 0
    THEN getPipeCollisionType(y, pipes[hitPipe(y, pipes)]) = "bottom"
    ELSE checkBirdHitsBottom(y)

shouldBounceUp(y, pipes) ==
    IF checkBirdHitsBottom(y) THEN TRUE
    ELSE IF checkBirdHitsTop(y) THEN FALSE
    ELSE IF hitPipe(y, pipes) # 0
         THEN getPipeCollisionType(y, pipes[hitPipe(y, pipes)]) = "bottom"
         ELSE FALSE

\* the game ends on a collision tick
collisionEnd_late(lives, passedAll) == lives - 1 < 0 \/ passedAll

\* a collision that never ends the game for want of lives
collisionEnd_never(lives, passedAll) == passedAll

collisionEnd(lives, passedAll) == lives - 1 <= 0 \/ passedAll

\* the early return of tick
frozen_endedOnly(s) == s.gameEnd

\* an early return for the paused game only
frozen_pausedOnly(s) == s.paused

frozen(s) == s.gameEnd \/ s.paused

tick(allPipesLength, s) ==
    IF frozen(s) THEN s
    ELSE
    LET velocity  == s.birdVelocity + GRAVITY
        y         == s.birdY + velocity
        newTime   == DAdd(s.gameTime, tickSeconds)
        moved     == movedPipes(s.pipes)
        scored    == pipesWithScore(moved)
        newScore  == s.score + newlyPassed(moved)
        passedAll == allPipesPassed(allPipesLength, newScore)
        collide   == /\ isVulnerable(newTime, s)
                     /\ \/ checkBirdHitsTop(y)
                        \/ checkBirdHitsBottom(y)
                        \/ hitPipe(y, s.pipes) # 0
        bounce    == generateBounceVelocity(s.rngSeed, shouldBounceUp(y, s.pipes))
        clampedY  == Max(0, Min(CANVAS_HEIGHT * Unit - BIRB_HEIGHT * Unit, y))
    IN  IF collide
        THEN [s EXCEPT !.birdY = y,
                       !.birdVelocity = bounce[1],
                       !.pipes = scored,
                       !.gameTime = newTime,
                       !.lives = s.lives - 1,
                       !.rngSeed = bounce[2],
                       !.invulnerableUntil = DAdd(newTime, DFromMilli(INVULNERABLE_MS)),
                       !.score = newScore,
                       !.gameEnd = collisionEnd(s.lives, passedAll),
                       !.currentPath = Append(s.currentPath, y)]
        ELSE [s EXCEPT !.birdY = clampedY,
                       !.birdVelocity = velocity,
                       !.pipes = scored,
                       !.score = newScore,
                       !.gameTime = newTime,
                       !.invulnerableUntil = s.invulnerableUntil,
                       !.gameEnd = passedAll,
                       !.currentPath = Append(s.currentPath, clampedY)]

\* the frame of ghostPath that render draws:
\* Math.floor(s.gameTime / (Constants.TICK_RATE_MS / 1000))
ghostFrame(s) == DFloorDiv(s.gameTime, tickSeconds)

\* render draws the ghost bird only when the frame exists in ghostPath
\* (frames count from 0, sequences here from 1)
ghostShown(s) == ghostFrame(s) < Len(s.ghostPath)

ghostY(s) == s.ghostPath[ghostFrame(s) + 1]

\* a flap that adds FLAP_STRENGTH to the velocity
flap_additive(s) == [s EXCEPT !.birdVelocity = @ + FLAP_STRENGTH * Unit]

flap(s) == [s EXCEPT !.birdVelocity = FLAP_STRENGTH * Unit]

\* the reducer of restart$
restart_unguarded(s) == [initialState EXCEPT !.ghostPath = s.currentPath]

restart(s) ==
    IF s.gameEnd THEN [initialState EXCEPT !.ghostPath = s.currentPath] ELSE s

\* the reducer of pause$
pause_guarded(s) == IF s.gameEnd THEN s ELSE [s EXCEPT !.paused = ~s.paused]

pause(s) == [s EXCEPT !.paused = ~s.paused]

\* a spawn that is dropped while the game is paused or ended
spawn_guarded(s, pipe) ==
    IF frozen(s) THEN s ELSE [s EXCEPT !.pipes = Append(s.pipes, pipe)]

\* the reducer of one pipeSpawn$ timer
spawn(s, pipe) == [s EXCEPT !.pipes = Append(s.pipes, pipe)]

(***************************************************************************)
(* Level table                                                             *)
(***************************************************************************)
\* the text is a string; Char(str, i) is its i-th character
Char(str, i) == SubSeq(str, i, i)

WhiteSpace == {" ", "\t", "\n", "\r"}

DigitChars == << "0", "1", "2", "3", "4", "5", "6", "7", "8", "9" >>

IsDigit(c) == \E d \in 1..10 : DigitChars[d] = c

DigitValue(c) == (CHOOSE d \in 1..10 : DigitChars[d] = c) - 1

RECURSIVE trimStart(_)
trimStart(str) ==
    IF Len(str) > 0 /\ Char(str, 1) \in WhiteSpace
    THEN trimStart(SubSeq(str, 2, Len(str)))
    ELSE str

RECURSIVE trimEnd(_)
trimEnd(str) ==
    IF Len(str) > 0 /\ Char(str, Len(str)) \in WhiteSpace
    THEN trimEnd(SubSeq(str, 1, Len(str) - 1))
    ELSE str

\* String.prototype.trim without the removal of trailing white space
trim_startOnly(str) == trimStart(str)

\* String.prototype.trim
trim(str) == trimEnd(trimStart(str))

\* position of the first occurrence of the character c in str, 0 if none
IndexOf(str, c) ==
    LET hits == {i \in 1..Len(str) : Char(str, i) = c}
    IN  IF hits = {} THEN 0 ELSE CHOOSE i \in hits : \A j \in hits : i <= j

RECURSIVE split(_, _)
\* String.prototype.split with a one-character separator
split(str, sep) ==
    LET i == IndexOf(str, sep)
    IN  IF i = 0 THEN << str >>
        ELSE << SubSeq(str, 1, i - 1) >> \o split(SubSeq(str, i + 1, Len(str)), sep)

RECURSIVE DigitRun(_, _)
\* number of consecutive digits of str from position i on
DigitRun(str, i) ==
    IF i <= Len(str) /\ IsDigit(Char(str, i)) THEN 1 + DigitRun(str, i + 1) ELSE 0

RECURSIVE DigitsValue(_, _, _)
\* the number written by the n digits of str from position i on
DigitsValue(str, i, n) ==
    IF n = 0 THEN 0
    ELSE 10 * DigitsValue(str, i, n - 1) + DigitValue(Char(str, i + n - 1))

\* the longest prefix of str (after leading white space) that is a decimal
\* literal: sign, integer digits, point, fraction digits.  Exponents and
\* "Infinity" are not modelled; the level texts drawn below have neither.
scanFloat(str) ==
    LET t      == trimStart(str)
        signed == Len(t) > 0 /\ Char(t, 1) \in {"-", "+"}
        p      == IF signed THEN 2 ELSE 1
        ni     == DigitRun(t, p)
        hasDot == p + ni <= Len(t) /\ Char(t, p + ni) = "."
        nf     == IF hasDot THEN DigitRun(t, p + ni + 1) ELSE 0
    IN  [ text   |-> t,
          neg    |-> signed /\ Char(t, 1) = "-",
          start  |-> p,
          ni     |-> ni,
          nf     |-> nf,
          length |-> IF ni = 0 /\ nf = 0 THEN 0
                     ELSE p - 1 + ni + (IF hasDot THEN 1 + nf ELSE 0) ]

\* parseFloat: the value of the literal prefix in thousandths (fraction
\* digits after the third are dropped), "NaN" when there is no such prefix
parseFloat(str) ==
    LET f    == scanFloat(str)
        frac == SubSeq(f.text, f.start + f.ni + 1, f.start + f.ni + f.nf) \o "000"
        mag  == 1000 * DigitsValue(f.text, f.start, f.ni) + DigitsValue(frac, 1, 3)
    IN  IF f.length = 0 THEN "NaN"
        ELSE IF f.neg THEN -mag ELSE mag

\* csvContent.trim().split("\n").slice(1).map(...)
parseCSV(csvContent) ==
    LET lines   == split(trim(csvContent), "\n")
        records == Tail(lines)
        values(line) ==
            LET cells == split(line, ",")
            IN  [k \in 1..Len(cells) |-> parseFloat(trim(cells[k]))]
        \* const [gapY, gapHeight, time] = ...
        item(line, k) ==
            IF k <= Len(values(line)) THEN values(line)[k] ELSE "undefined"
    IN  [index \in 1..Len(records) |->
            [ id        |-> index - 1,
              x         |-> CANVAS_WIDTH,
              gapY      |-> item(records[index], 1),
              gapHeight |-> item(records[index], 2),
              passed    |-> FALSE,
              time      |-> item(records[index], 3) ]]

\* the header line the level generator writes
Header == "gap_y,gap_height,time"

\* two pipes whose gap spans the canvas, two ticks apart, the later one
\* first in the table
LevelWide == Header \o "\n0.5,1,0.04\n0.5,1,0"
\* a narrow high gap at once and a late pipe
LevelNarrow == Header \o "\n0.25,0.2,0\n0.75,0.2,5.2\n"
LevelEmpty == Header \o "\n"

Levels == {LevelWide, LevelNarrow, LevelEmpty}

(***************************************************************************)
(* The time-window variant (src/src/main.ts): no spawn timers and no       *)
(* pause; every tick moves the visible pipes and admits the pipes of the   *)
(* level table whose time lies within one tick of the new game time.       *)
(***************************************************************************)

\* the longest play of the time-window variant, in interval emissions
WindowTicks == 340

windowInitialState ==
    [ birdY             |-> (CANVAS_HEIGHT * Unit) \div 2 - (BIRB_HEIGHT * Unit) \div 2,
      birdVelocity      |-> 0,
      pipes             |-> << >>,
      gameTime          |-> DZero,
      score             |-> 0,
      gameEnd           |-> FALSE,
      lives             |-> 3,
      rngSeed           |-> 12345,
      invulnerableUntil |-> DZero,
      currentPath       |-> << >>,
      ghostPath         |-> << >> ]

\* Math.abs(a - b) in double arithmetic
DAbsDiff(a, b) ==
    IF DGeq(a, b) THEN SubSeq(RoundDouble(SubLimbs(a, b)), 1, 5)
    ELSE SubSeq(RoundDouble(SubLimbs(b, a)), 1, 5)

\* Math.abs(pipe.time - gameTime) < Constants.TICK_RATE_MS / 1000
inWindow(pipe, gameTime) ==
    ~DGeq(DAbsDiff(DFromMilli(pipe.time), gameTime), tickSeconds)

\* the pipes of the level table that spawn at gameTime
newPipes(currentPipes, all, gameTime) ==
    LET due(pipe) ==
            /\ inWindow(pipe, gameTime)
            /\ ~\E i \in 1..Len(currentPipes) : currentPipes[i].id = pipe.id
    IN  SelectSeq(all, due)

updatePipes(currentPipes, all, gameTime) ==
    movedPipes(currentPipes) \o newPipes(currentPipes, all, gameTime)

\* allPipes.length > 0 &&
\* pipesWithScore.filter(p => p.passed).length === allPipes.length
windowAllPipesPassed(all, scored) ==
    LET isPassed(pipe) == pipe.passed
    IN  Len(all) > 0 /\ Len(SelectSeq(scored, isPassed)) = Len(all)

windowTick(all, s) ==
    IF s.gameEnd THEN s
    ELSE
    LET velocity  == s.birdVelocity + GRAVITY
        y         == s.birdY + velocity
        newTime   == DAdd(s.gameTime, tickSeconds)
        updated   == updatePipes(s.pipes, all, newTime)
        scored    == pipesWithScore(updated)
        newScore  == s.score + newlyPassed(updated)
        passedAll == windowAllPipesPassed(all, scored)
        collide   == /\ DGeq(newTime, s.invulnerableUntil)
                     /\ \/ checkBirdHitsTop(y)
                        \/ checkBirdHitsBottom(y)
                        \/ hitPipe(y, s.pipes) # 0
        bounce    == generateBounceVelocity(s.rngSeed, shouldBounceUp(y, s.pipes))
        clampedY  == Max(0, Min(CANVAS_HEIGHT * Unit - BIRB_HEIGHT * Unit, y))
    IN  IF collide
        THEN [s EXCEPT !.birdY = y,
                       !.birdVelocity = bounce[1],
                       !.pipes = scored,
                       !.gameTime = newTime,
                       !.lives = s.lives - 1,
                       !.rngSeed = bounce[2],
                       !.invulnerableUntil = DAdd(newTime, DFromMilli(2 * 1000)),
                       !.score = newScore,
                       !.gameEnd = (s.lives - 1 <= 0 \/ passedAll),
                       !.currentPath = Append(s.currentPath, y)]
        ELSE [s EXCEPT !.birdY = clampedY,
                       !.birdVelocity = velocity,
                       !.pipes = scored,
                       !.score = newScore,
                       !.gameTime = newTime,
                       !.gameEnd = passedAll,
                       !.currentPath = Append(s.currentPath, clampedY)]

windowRestart(s) ==
    IF s.gameEnd THEN [windowInitialState EXCEPT !.ghostPath = s.currentPath] ELSE s


(***************************************************************************)
(* state$: the merged event streams folded by scan                         *)
(***************************************************************************)
VARIABLES
    csvContents,  \* the level text fetched by the page
    script,       \* the instants of the Space presses of a scripted play
    started,      \* the first mousedown has subscribed to state$(csvContents)
    s,          \* the State held by scan
    allPipes,   \* parseCSV(csvContents)
    now,        \* emissions of interval(TICK_RATE_MS) so far
    spawned,    \* ids of the pipes whose timer has fired, in firing order
    passedIds,  \* ids of the pipes marked passed in the current run
    nFlap, nPause, nRestart   \* key presses so far

vars == << csvContents, script, started, s, allPipes, now, spawned, passedIds, nFlap, nPause, nRestart >>

Range(q) == {q[i] : i \in 1..Len(q)}

\* the page after the fetch of the level text, before the first mousedown
Loaded(texts, scripts) ==
    /\ csvContents \in texts
    /\ script \in scripts
    /\ started = FALSE
    /\ s = initialState
    /\ allPipes = << >>
    /\ now = 0
    /\ spawned = << >>
    /\ passedIds = {}
    /\ nFlap = 0
    /\ nPause = 0
    /\ nRestart = 0

Init == Loaded(Levels, { {} })

\* the first mousedown: state$(csvContents) parses the level and subscribes
\* to the timers, the interval and the keys
Click ==
    /\ ~started
    /\ started' = TRUE
    /\ allPipes' = parseCSV(csvContents)
    /\ UNCHANGED << csvContents, script, s, now, spawned, passedIds, nFlap, nPause, nRestart >>

\* timer(pipe.time * 1000) emits once
timerPending_always(pipe) == TRUE

timerPending(pipe) == pipe.id \notin Range(spawned)

\* timers fire in the order of their due times, and in subscription order
\* when the due times are equal
firesBefore(p, q) == p.time < q.time \/ (p.time = q.time /\ p.id < q.id)

\* the timer of `pipe` may fire now: it is due no later than the next
\* interval emission and every timer due before it has fired
timerDue(pipe) ==
    /\ pipe.time <= (now + 1) * TICK_RATE_MS
    /\ \A i \in 1..Len(allPipes) :
          firesBefore(allPipes[i], pipe) => ~timerPending(allPipes[i])

\* the next interval emission may happen: no timer due strictly before it
\* is still pending
intervalDue ==
    \A i \in 1..Len(allPipes) :
        timerPending(allPipes[i]) => allPipes[i].time >= (now + 1) * TICK_RATE_MS

visiblePassed(pipes) == {pipes[i].id : i \in {j \in 1..Len(pipes) : pipes[j].passed}}

\* a key can be pressed
keyTime == now % KeyEvery = 0

\* a Space press of the script is due at this instant
flapPending ==
    now \in script /\ nFlap < Cardinality({k \in script : k <= now})

Tick ==
    /\ started
    /\ now < MaxTicks
    /\ intervalDue
    /\ ~flapPending
    /\ s' = tick(Len(allPipes), s)
    /\ now' = now + 1
    /\ passedIds' = passedIds \cup visiblePassed(s'.pipes)
    /\ UNCHANGED << csvContents, script, started, allPipes, spawned, nFlap, nPause, nRestart >>

PipeSpawn(i) ==
    /\ started
    /\ timerPending(allPipes[i])
    /\ timerDue(allPipes[i])
    /\ s' = spawn(s, allPipes[i])
    /\ spawned' = Append(spawned, allPipes[i].id)
    /\ UNCHANGED << csvContents, script, started, allPipes, now, passedIds, nFlap, nPause, nRestart >>

Flap ==
    /\ started
    /\ keyTime
    /\ nFlap < MaxFlaps
    /\ s' = flap(s)
    /\ nFlap' = nFlap + 1
    /\ UNCHANGED << csvContents, script, started, allPipes, now, spawned, passedIds, nPause, nRestart >>

Pause ==
    /\ started
    /\ keyTime
    /\ nPause < MaxPauses
    /\ s' = pause(s)
    /\ nPause' = nPause + 1
    /\ UNCHANGED << csvContents, script, started, allPipes, now, spawned, passedIds, nFlap, nRestart >>

Restart ==
    /\ started
    /\ keyTime
    /\ nRestart < MaxRestarts
    /\ s' = restart(s)
    /\ nRestart' = IF s.gameEnd THEN nRestart + 1 ELSE nRestart
    /\ passedIds' = IF s.gameEnd THEN {} ELSE passedIds
    /\ UNCHANGED << csvContents, script, started, allPipes, now, spawned, nFlap, nPause >>

SpawnAny == \E i \in 1..Len(allPipes) : PipeSpawn(i)

Next ==
    \/ Click
    \/ Tick
    \/ SpawnAny
    \/ Flap
    \/ Pause
    \/ Restart

Spec == Init /\ [][Next]_vars

(***************************************************************************)
(* Scripted plays: a level and the instants (in ticks since the start) at  *)
(* which the player presses Space                                          *)
(***************************************************************************)
\* two pipes that overlap the bird together: a gap at the floor first, a
\* gap high up two ticks behind
LevelPair == Header \o "\n0.95,0.1,0\n0.25,0.2,0.04"
\* a gap at the top edge of the canvas
LevelCeiling == Header \o "\n0.01,0.02,0"
\* a gap at the bottom edge of the canvas
LevelFloor == Header \o "\n0.99,0.02,0"
\* two gaps over the lower part of the canvas, the later one ending just
\* above the floor
LevelLow == Header \o "\n0.85,0.3,0.1\n0.84,0.3,0.5"

\* a gap narrower than the bird, centred 358 px down
LevelTie == Header \o "\n0.895,0.05,0"

EveryFourteen == {14 * k : k \in 0..21}

Plays ==
    { [text |-> LevelPair,    flaps |-> {126, 252}],
      [text |-> LevelNarrow,  flaps |-> {126, 252}],
      [text |-> LevelCeiling, flaps |-> EveryFourteen],
      [text |-> LevelFloor,   flaps |-> {10, 124, 225}],
      [text |-> LevelLow,     flaps |-> {10, 124, 250}],
      [text |-> LevelTie,     flaps |-> {126, 254}] }

PlayInit == \E play \in Plays : Loaded({play.text}, {play.flaps})

\* a keydown of Space at an instant of the script
ScriptedFlap ==
    /\ started
    /\ flapPending
    /\ s' = flap(s)
    /\ nFlap' = nFlap + 1
    /\ UNCHANGED << csvContents, script, started, allPipes, now, spawned, passedIds, nPause, nRestart >>

PlayNext ==
    \/ Click
    \/ Tick
    \/ SpawnAny
    \/ ScriptedFlap

PlaySpec == PlayInit /\ [][PlayNext]_vars

(***************************************************************************)
(* The level loader on its own: level texts, well formed and not           *)
(***************************************************************************)
\* fields as the level generator may write them, with their value in
\* thousandths
NumericFields ==
    { [str |-> "0.5", val |-> 500], [str |-> "1", val |-> 1000],
      [str |-> " 0.04", val |-> 40], [str |-> "0 ", val |-> 0],
      [str |-> ".25", val |-> 250],  [str |-> "-2", val |-> -2000],
      [str |-> "12.", val |-> 12000], [str |-> "+3.125", val |-> 3125] }

Field(str) == CHOOSE f \in NumericFields : f.str = str

\* records of three numeric fields
Rows ==
    { << Field("0.5"), Field("1"), Field(" 0.04") >>,
      << Field(".25"), Field("0.5"), Field("0 ") >>,
      << Field("1"), Field("-2"), Field("12.") >>,
      << Field("+3.125"), Field(" 0.04"), Field(".25") >>,
      << Field("0 "), Field("0 "), Field("0 ") >> }

MaxRows == 2

RowSeqs == UNION { [1..n -> Rows] : n \in 0..MaxRows }

LineEnds == { "\n", "\r\n" }

\* xs.join(",")
RowText(row) == row[1].str \o "," \o row[2].str \o "," \o row[3].str

RECURSIVE JoinLines(_, _)
\* the lines, each preceded by the line end
JoinLines(lines, end) ==
    IF lines = << >> THEN ""
    ELSE end \o Head(lines) \o JoinLines(Tail(lines), end)

\* the text of a level: header and records joined by the line end, with or
\* without a final line end
LevelText(rows, end, final) ==
    Header \o JoinLines([i \in 1..Len(rows) |-> RowText(rows[i])], end)
           \o (IF final THEN end ELSE "")

WellFormedTexts ==
    { LevelText(rows, end, final) : rows \in RowSeqs, end \in LineEnds, final \in BOOLEAN }

\* records with a wrong number of fields or a field that is not a number
BadRecords ==
    { "0.5,1", "0.5,1,2,3", "0.5", "abc,1,2", "0.5,,2", "0.5,1,x",
      "12abc,1,2", "0.5,1,2,", "0.5;1;2", "0.5,1 2,3", "-,1,2" }

MalformedTexts ==
    { Header \o JoinLines(before \o << bad >> \o after, "\n") :
        before \in { << >>, << "0.5,1,0" >> },
        bad \in BadRecords,
        after \in { << >>, << "0.5,1,2" >> } }
    \cup { Header \o "\n0.5,1,0\n\n0.5,1,2", Header \o "\n\n0.5,1,2" }

ParseTexts == WellFormedTexts \cup MalformedTexts \cup { "", "\n", Header }

ParseInit == Loaded(ParseTexts, { {} })

ParseNext == Click

ParseSpec == ParseInit /\ [][ParseNext]_vars

(***************************************************************************)
(* Properties                                                              *)
(***************************************************************************)
AllIds == {allPipes[i].id : i \in 1..Len(allPipes)}

\* an event other than restart
RunEvent == Tick \/ Flap \/ Pause \/ SpawnAny

\* C1: a tick received while the state is paused or ended returns the state
\* unchanged in every field
C1_FrozenTickNoop == [][Tick /\ (s.gameEnd \/ s.paused) => s' = s]_vars

\* an interval emission has been folded into a paused state of the first run
C1_Witness ==
    /\ nRestart = 0
    /\ s.paused
    /\ ~s.gameEnd
    /\ now > Len(s.currentPath)

\* C2: restart on an ended state yields the session defaults with ghostPath
\* set to the ended run's currentPath; restart on any other state changes
\* nothing
C2_Restart ==
    [][Restart =>
        IF s.gameEnd
        THEN s' = [ birdY             |-> 185 * Unit,
                    birdVelocity      |-> 0,
                    pipes             |-> << >>,
                    gameTime          |-> DZero,
                    score             |-> 0,
                    gameEnd           |-> FALSE,
                    lives             |-> 3,
                    rngSeed           |-> 12345,
                    invulnerableUntil |-> DZero,
                    currentPath       |-> << >>,
                    ghostPath         |-> s.currentPath,
                    paused            |-> FALSE ]
        ELSE s' = s]_vars

\* a restart has replaced an ended run
C2_Witness ==
    /\ nRestart = 1
    /\ Len(s.ghostPath) > 0
    /\ s.gameTime = DZero

\* C3: within a run lives never increases, and a transition that brings lives
\* to 0 sets gameEnd in that same transition
C3_Lives ==
    [][RunEvent =>
        /\ s'.lives <= s.lives
        /\ (s'.lives = 0 /\ s.lives # 0 => s'.gameEnd)]_vars

\* the last life has been lost
C3_Witness == s.lives = 0 /\ s.gameEnd /\ nRestart = 0

\* C4: a running tick whose advanced time is below invulnerableUntil leaves
\* lives, rngSeed and invulnerableUntil alone and only adds GRAVITY to the
\* velocity, whatever the geometry
C4_Invulnerable ==
    [][Tick /\ ~frozen(s) /\ ~DGeq(DAdd(s.gameTime, tickSeconds), s.invulnerableUntil) =>
        /\ s'.lives = s.lives
        /\ s'.rngSeed = s.rngSeed
        /\ s'.invulnerableUntil = s.invulnerableUntil
        /\ s'.birdVelocity = s.birdVelocity + GRAVITY]_vars

\* after an invulnerable tick (not the collision tick itself) the bird is on
\* the floor and reaches below the gap of a pipe that overlapped it
\* horizontally when that tick ran
C4_Witness ==
    /\ ~s.gameEnd
    /\ ~DGeq(s.gameTime, s.invulnerableUntil)
    /\ s.invulnerableUntil # DAdd(s.gameTime, DFromMilli(INVULNERABLE_MS))
    /\ checkBirdHitsBottom(s.birdY)
    /\ \E i \in 1..Len(s.pipes) :
          LET before == [s.pipes[i] EXCEPT !.x = @ + PIPE_SPEED]
          IN  /\ BIRD_X + BIRB_WIDTH > before.x
              /\ BIRD_X < before.x + PIPE_WIDTH
              /\ s.birdY + BIRB_HEIGHT * Unit > gapBottom(before)

\* C5: within a run score never decreases; a tick raises it by the number of
\* pipes whose passed flag flips on that tick, each of them with its right
\* edge left of the bird and none of them passed before in this run; score
\* equals the number of pipes marked passed in this run and never exceeds the
\* size of the level table
C5_Score ==
    /\ [](s.score = Cardinality(passedIds) /\ s.score <= Len(allPipes))
    /\ [][RunEvent => s'.score >= s.score]_vars
    /\ [][Tick =>
            LET flipped == visiblePassed(s'.pipes) \ visiblePassed(s.pipes)
            IN  /\ s'.score = s.score + Cardinality(flipped)
                /\ flipped \cap passedIds = {}
                /\ \A i \in 1..Len(s'.pipes) :
                      s'.pipes[i].id \in flipped =>
                          s'.pipes[i].x + PIPE_WIDTH < BIRD_X]_vars

\* a pipe has been passed and is still visible
C5_Witness ==
    /\ s.score = 1
    /\ \E i \in 1..Len(s.pipes) : s.pipes[i].passed

\* C6: with a non-empty level table the run ends on the tick that marks the
\* last pipe of the table passed, and a tick ends the run with lives left
\* only when every pipe of the table has been marked passed in this run
C6_Completion ==
    [][Tick /\ ~frozen(s) /\ Len(allPipes) > 0 =>
        /\ (passedIds' = AllIds /\ passedIds # AllIds => s'.gameEnd)
        /\ (s'.gameEnd /\ s'.lives > 0 => passedIds' = AllIds)]_vars

\* a run has ended with lives left
C6_Witness ==
    /\ Len(allPipes) > 0
    /\ s.gameEnd
    /\ s.lives > 0
    /\ passedIds = AllIds

\* C7: a flap received while the state is ended changes no field
C7_FlapEndedNoop == [][Flap /\ s.gameEnd => s' = s]_vars

\* C8: pause flips paused in every state, ended ones included, and changes
\* nothing else; two toggles in a row give the state back
C8_Pause ==
    /\ [][Pause => s' = [s EXCEPT !.paused = ~s.paused]]_vars
    /\ [](pause(pause(s)) = s)

\* the pause key has been pressed in an ended state
C8_Witness == s.gameEnd /\ s.paused

\* C9: every timer fires at most once and no later than its due time, the
\* pipes are added in non-decreasing order of time, and no two visible pipes
\* have the same id
C9_SpawnOnce ==
    /\ \A i, j \in 1..Len(spawned) : i < j =>
          /\ spawned[i] # spawned[j]
          /\ allPipes[spawned[i] + 1].time <= allPipes[spawned[j] + 1].time
    /\ \A i, j \in 1..Len(s.pipes) : i < j => s.pipes[i].id # s.pipes[j].id
    /\ \A i \in 1..Len(allPipes) :
          allPipes[i].time < now * TICK_RATE_MS => allPipes[i].id \in Range(spawned)

\* both pipes of a table that is not sorted by time are visible, the second
\* row (due first) added first
C9_Witness == spawned = << 1, 0 >> /\ Len(s.pipes) = 2

\* C11: every running tick, on either branch, appends the stored birdY to
\* currentPath; flap, pause and spawn leave currentPath alone; and in every
\* reachable state the length of currentPath is the frame index that the
\* ghost replay computes from gameTime
C11_PathLength ==
    /\ [][Tick /\ ~(s.gameEnd \/ s.paused) =>
            s'.currentPath = Append(s.currentPath, s'.birdY)]_vars
    /\ [][Flap \/ Pause \/ SpawnAny => s'.currentPath = s.currentPath]_vars
    /\ [](ghostFrame(s) = Len(s.currentPath))

\* C12: a running tick replaces gameTime by the double sum of gameTime and
\* the tick duration 20 / 1000 s, which is strictly above it; flap, pause,
\* spawn and ticks received while paused or ended leave gameTime alone; no
\* event of a run lowers gameTime
C12_ElapsedTime ==
    /\ [][Tick /\ ~(s.gameEnd \/ s.paused) =>
            /\ s'.gameTime = RoundDouble(AddLimbs(s.gameTime, DFromMilli(TICK_RATE_MS)))
            /\ s'.gameTime # s.gameTime]_vars
    /\ [][Flap \/ Pause \/ SpawnAny \/ (Tick /\ (s.gameEnd \/ s.paused)) =>
            s'.gameTime = s.gameTime]_vars
    /\ [][RunEvent => DGeq(s'.gameTime, s.gameTime)]_vars

\* a paused run that has ticked, flapped and then missed ticks, whose
\* gameTime is not the double nearest to the tick count times 20 ms
C12_Witness ==
    /\ s.paused /\ ~s.gameEnd
    /\ nFlap > 0
    /\ Len(s.currentPath) > 0
    /\ now > Len(s.currentPath) + 1
    /\ s.gameTime # DFromMilli(TICK_RATE_MS * Len(s.currentPath))

\* a cell is numeric when all of it, white space aside, is a decimal literal
IsNumeric(cell) ==
    LET f == scanFloat(trim(cell))
    IN  f.length > 0 /\ f.length = Len(f.text)

\* some data record of the text has a number of fields other than three or a
\* field that is not numeric
Malformed(text) ==
    LET records == Tail(split(trim(text), "\n"))
    IN  \E i \in 1..Len(records) :
            LET cells == split(records[i], ",")
            IN  Len(cells) # 3 \/ \E k \in 1..Len(cells) : ~IsNumeric(cells[k])

\* C13: a level text with a malformed data record never starts a session:
\* the loader fails and hands no obstacle table to the reducer
C13_ParseError == [](Malformed(csvContents) => ~started)

\* C14: for a text made of the header and n records of three numeric fields
\* the loader returns n pipes in input order with id 0..n-1, x 600, passed
\* false and gapY, gapHeight, time the values of the three fields in order
C14_WellFormed ==
    [](started =>
        \A rows \in RowSeqs, end \in LineEnds, final \in BOOLEAN :
            csvContents = LevelText(rows, end, final) =>
                /\ Len(allPipes) = Len(rows)
                /\ \A i \in 1..Len(rows) :
                      allPipes[i] = [ id        |-> i - 1,
                                      x         |-> 600,
                                      gapY      |-> rows[i][1].val,
                                      gapHeight |-> rows[i][2].val,
                                      passed    |-> FALSE,
                                      time      |-> rows[i][3].val ])

\* a loaded level of two different records from a well-formed text that ends
\* with a line end
C14_Witness ==
    /\ started
    /\ csvContents \in WellFormedTexts
    /\ Len(allPipes) = 2
    /\ allPipes[1].gapY # allPipes[2].gapY
    /\ Char(csvContents, Len(csvContents)) = "\n"

\* C15: in a session whose level table is empty no tick ends the run by
\* completion: a tick that sets gameEnd takes the last life, and gameEnd
\* holds only with no life left
C15_EmptyLevel ==
    /\ [][Tick /\ Len(allPipes) = 0 /\ ~s.gameEnd /\ s'.gameEnd =>
            s.lives = 1 /\ s'.lives = 0]_vars
    /\ [](started /\ Len(allPipes) = 0 /\ s.gameEnd => s.lives = 0)

\* a session with an empty table that has run, lost its lives, been
\* restarted and is running again
C15_Witness ==
    /\ started
    /\ Len(allPipes) = 0
    /\ nRestart = 1
    /\ ~s.gameEnd
    /\ s.lives < INITIAL_LIVES
    /\ s.score = 0

\* C17: a flap in a running state sets birdVelocity to -8 whatever it was and
\* leaves every other field alone; a flap that follows a flap at once changes
\* nothing
C17_Flap ==
    /\ [][Flap /\ ~s.gameEnd /\ ~s.paused =>
            /\ s'.birdVelocity = -8 * Unit
            /\ s' = [s EXCEPT !.birdVelocity = s'.birdVelocity]]_vars
    /\ [][Flap /\ ~s.gameEnd /\ ~s.paused /\ s.birdVelocity = -8 * Unit => s' = s]_vars

\* two flaps at the same instant, 42 ticks into a run that had not flapped
\* before
C17_Witness ==
    /\ nFlap = 2
    /\ ~s.gameEnd /\ ~s.paused
    /\ now = Len(s.currentPath)
    /\ now >= 2
    /\ s.currentPath[1] = s.currentPath[2] - 2 * GRAVITY
    /\ s.birdVelocity = -8 * Unit

\* (1103515245 * seed + 12345) mod 2^31 in exact integer arithmetic
hash_exact(seed) == Low31(AddSmall(MulLimbs(Limbs(RNG_a), Limbs(seed)), RNG_c))

\* C19: the velocity a collision tick stores has magnitude in [3, 6], is
\* negative exactly when the bounce is upward, and the seed stored with it is
\* (1103515245 * seed + 12345) mod 2^31 of the seed before, within [0, 2^31)
C19_Bounce ==
    [][Tick /\ s'.lives < s.lives =>
        /\ Abs(s'.birdVelocity) \in (3 * Unit)..(6 * Unit)
        /\ s'.birdVelocity < 0 <=> shouldBounceUp(s'.birdY, s.pipes)
        /\ s'.rngSeed \in 0..2147483647
        /\ s'.rngSeed = hash_exact(s.rngSeed)]_vars

\* the y that a tick computes from state st before any clamping
tickY(st) == st.birdY + (st.birdVelocity + GRAVITY)

\* a tick that runs the collision tests: not frozen and past invulnerableUntil
VulnerableTick ==
    /\ Tick
    /\ ~(s.gameEnd \/ s.paused)
    /\ DGeq(s'.gameTime, s.invulnerableUntil)

\* the bird at height y overlaps the pipe horizontally
OverlapsX(pipe) == BIRD_X + BIRB_WIDTH > pipe.x /\ BIRD_X < pipe.x + PIPE_WIDTH

\* the bird's box at height y is fully below the gap of a pipe it overlaps
BelowGap(y, pipe) == OverlapsX(pipe) /\ y >= gapBottom(pipe)

\* C16 as stated: on a vulnerable tick with the bird fully below the gap of a
\* visible pipe that it overlaps horizontally, a life is lost, that pipe
\* classifies the hit as "bottom" and the stored velocity is negative
C16_BelowGap ==
    [][VulnerableTick =>
        \A i \in 1..Len(s.pipes) :
            BelowGap(tickY(s), s.pipes[i]) =>
                /\ s'.lives = s.lives - 1
                /\ getPipeCollisionType(tickY(s), s.pipes[i]) = "bottom"
                /\ s'.birdVelocity < 0]_vars

\* C16 amended: the same, for a pipe before which no visible pipe is hit on
\* that tick
C16_BelowFirstHit ==
    [][VulnerableTick =>
        \A i \in 1..Len(s.pipes) :
            /\ BelowGap(tickY(s), s.pipes[i])
            /\ \A j \in 1..(i - 1) : ~checkBirdHitsPipe(tickY(s), s.pipes[j])
            =>  /\ s'.lives = s.lives - 1
                /\ getPipeCollisionType(tickY(s), s.pipes[i]) = "bottom"
                /\ s'.birdVelocity < 0]_vars

\* just after a collision tick, in mid-air, the bird is fully below the gap
\* of the first visible pipe, which overlapped it when the tick ran, and
\* moves upward
C16_Witness ==
    /\ s.invulnerableUntil = DAdd(s.gameTime, DFromMilli(INVULNERABLE_MS))
    /\ s.invulnerableUntil # DZero
    /\ ~checkBirdHitsBottom(s.birdY)
    /\ Len(s.pipes) > 0
    /\ BelowGap(s.birdY, [s.pipes[1] EXCEPT !.x = @ + PIPE_SPEED])
    /\ s.birdVelocity < 0

\* the state is the result of a collision tick
JustCollided ==
    /\ s.invulnerableUntil = DAdd(s.gameTime, DFromMilli(INVULNERABLE_MS))
    /\ s.invulnerableUntil # DZero

\* the pipe as it was before the tick that produced the present state
BeforeMove(pipe) == [pipe EXCEPT !.x = @ + PIPE_SPEED, !.passed = FALSE]

\* C18: a vulnerable running tick on which the bird is at or above the top
\* (y <= 0), at or below the floor (y + 30 >= 400) or collides with a
\* visible pipe takes exactly one life, replaces rngSeed by hash(rngSeed),
\* sets invulnerableUntil to the advanced gameTime plus 2 s, and still
\* moves the pipes and credits the pipes passed on that tick
C18_Collision ==
    [][VulnerableTick /\
        (\/ tickY(s) <= 0
         \/ tickY(s) + 30 * Unit >= 400 * Unit
         \/ \E i \in 1..Len(s.pipes) : checkBirdHitsPipe(tickY(s), s.pipes[i]))
        =>  /\ s'.lives = s.lives - 1
            /\ s'.rngSeed = hash(s.rngSeed)
            /\ s'.gameTime = DAdd(s.gameTime, tickSeconds)
            /\ s'.invulnerableUntil = DAdd(s'.gameTime, DFromMilli(2000))
            /\ Len(s'.pipes) = Cardinality({i \in 1..Len(s.pipes) : s.pipes[i].x - 2 > -50})
            /\ \A i \in 1..Len(s'.pipes) :
                  \E j \in 1..Len(s.pipes) :
                      /\ s'.pipes[i].id = s.pipes[j].id
                      /\ s'.pipes[i].x = s.pipes[j].x - 2
                      /\ s'.pipes[i].passed = (s.pipes[j].passed \/ s'.pipes[i].x + 50 < 100)
            /\ s'.score = s.score + Cardinality(visiblePassed(s'.pipes) \ visiblePassed(s.pipes))]_vars

\* the result of a collision tick on which the bird reached the floor,
\* collided with a pipe as well, and was credited another pipe
C18_Witness ==
    /\ JustCollided
    /\ checkBirdHitsBottom(s.birdY)
    /\ \E i \in 1..Len(s.pipes) : checkBirdHitsPipe(s.birdY, BeforeMove(s.pipes[i]))
    /\ \E i \in 1..Len(s.pipes) :
          s.pipes[i].passed /\ s.pipes[i].x + PIPE_WIDTH + PIPE_SPEED >= BIRD_X
    /\ s.score = 1
    /\ s.lives = 0

\* C20: on a collision tick the stored velocity is upward when the bird is
\* at the floor, whatever a pipe hit at the same time says; otherwise
\* downward when the bird is at the top, whatever a pipe says; otherwise
\* upward exactly when the first pipe hit classifies the hit as "bottom"
C20_Precedence ==
    [][VulnerableTick /\ s'.lives < s.lives =>
        LET y == tickY(s)
            first == hitPipe(y, s.pipes)
        IN  IF y + BIRB_HEIGHT * Unit >= CANVAS_HEIGHT * Unit THEN s'.birdVelocity < 0
            ELSE IF y <= 0 THEN s'.birdVelocity > 0
            ELSE /\ first # 0
                 /\ s'.birdVelocity < 0 <=>
                        getPipeCollisionType(y, s.pipes[first]) = "bottom"]_vars

\* the result of a collision tick on which the bird was above the top while
\* inside a pipe that classifies the hit as "bottom": the bounce is downward
C20_Witness ==
    /\ JustCollided
    /\ checkBirdHitsTop(s.birdY)
    /\ \E i \in 1..Len(s.pipes) :
          /\ checkBirdHitsPipe(s.birdY, BeforeMove(s.pipes[i]))
          /\ getPipeCollisionType(s.birdY, BeforeMove(s.pipes[i])) = "bottom"
    /\ s.birdVelocity > 0

\* vertical centres, in thousandths of a pixel
BirdCenter(y) == y + 15 * Unit

GapCenter(pipe) == pipe.gapY * 400

\* C21 as stated: for a pipe the bird collides with on a vulnerable tick the
\* side is "bottom" exactly when the bird's centre is strictly below the gap
\* centre (a greater y), and "top" otherwise, equal centres included; when
\* no screen edge is hit the first such pipe sends the bird upward exactly
\* in the "bottom" case
C21_Side ==
    [][VulnerableTick =>
        LET y == tickY(s)
            hits == {i \in 1..Len(s.pipes) : checkBirdHitsPipe(y, s.pipes[i])}
        IN  /\ \A i \in hits :
                  getPipeCollisionType(y, s.pipes[i]) =
                      IF BirdCenter(y) > GapCenter(s.pipes[i]) THEN "bottom" ELSE "top"
            /\ hits # {} /\ ~checkBirdHitsTop(y) /\ ~checkBirdHitsBottom(y) =>
                  LET first == CHOOSE i \in hits : \A j \in hits : i <= j
                  IN  s'.birdVelocity < 0 <=> BirdCenter(y) > GapCenter(s.pipes[first])]_vars

\* C21 amended: the side is "bottom" exactly when the bird's centre is at or
\* below the gap centre, equal centres included, and "top" when it is
\* strictly above
C21_SideOrEqual ==
    [][VulnerableTick =>
        LET y == tickY(s)
            hits == {i \in 1..Len(s.pipes) : checkBirdHitsPipe(y, s.pipes[i])}
        IN  /\ \A i \in hits :
                  getPipeCollisionType(y, s.pipes[i]) =
                      IF BirdCenter(y) >= GapCenter(s.pipes[i]) THEN "bottom" ELSE "top"
            /\ hits # {} /\ ~checkBirdHitsTop(y) /\ ~checkBirdHitsBottom(y) =>
                  LET first == CHOOSE i \in hits : \A j \in hits : i <= j
                  IN  s'.birdVelocity < 0 <=> BirdCenter(y) >= GapCenter(s.pipes[first])]_vars

\* the result of a collision tick, away from the screen edges, on which the
\* bird's centre was the gap centre of the pipe it hit: the bounce is upward
C21_Witness ==
    /\ JustCollided
    /\ ~checkBirdHitsTop(s.birdY) /\ ~checkBirdHitsBottom(s.birdY)
    /\ Len(s.pipes) = 1
    /\ checkBirdHitsPipe(s.birdY, BeforeMove(s.pipes[1]))
    /\ BirdCenter(s.birdY) = GapCenter(s.pipes[1])
    /\ s.birdVelocity < 0

\* C22: a running tick that registers no collision stores the integrated
\* position y + velocity + GRAVITY clamped to [0, 370] and the velocity
\* velocity + GRAVITY, also when the clamp applies; a collision tick stores
\* the integrated position unclamped
C22_Clamp ==
    [][Tick /\ ~(s.gameEnd \/ s.paused) =>
        LET y == s.birdY + s.birdVelocity + GRAVITY
        IN  IF s'.lives = s.lives
            THEN /\ s'.birdY = (IF y < 0 THEN 0
                                ELSE IF y > 370 * Unit THEN 370 * Unit ELSE y)
                 /\ s'.birdVelocity = s.birdVelocity + GRAVITY
            ELSE s'.birdY = y]_vars

\* the bird held at the top edge by the clamp while still moving upward
C22_Witness ==
    /\ started
    /\ ~JustCollided
    /\ ~s.gameEnd
    /\ s.birdY = 0
    /\ s.birdVelocity < -GRAVITY
    /\ s.lives < INITIAL_LIVES

\* C23: a vulnerable tick registers a collision exactly when the newly
\* integrated y is at a screen edge or collides with a visible pipe at the
\* position the pipe has after this tick's movement
C23_MovedPositions ==
    [][VulnerableTick =>
        LET y == tickY(s)
            after == movedPipes(s.pipes)
        IN  s'.lives < s.lives <=>
                \/ y <= 0
                \/ y + BIRB_HEIGHT * Unit >= CANVAS_HEIGHT * Unit
                \/ \E i \in 1..Len(after) : checkBirdHitsPipe(y, after[i])]_vars

\* C24: on a vulnerable tick without a screen-edge hit on which the bird
\* collides with more than one visible pipe, the bounce direction is the one
\* of the earliest colliding pipe in s.pipes order
C24_FirstOverlap ==
    [][VulnerableTick =>
        LET y == tickY(s)
            hits == {i \in 1..Len(s.pipes) : checkBirdHitsPipe(y, s.pipes[i])}
        IN  Cardinality(hits) >= 2 /\ ~checkBirdHitsTop(y) /\ ~checkBirdHitsBottom(y)
            => LET first == CHOOSE i \in hits : \A j \in hits : i <= j
               IN  /\ s'.lives = s.lives - 1
                   /\ s'.birdVelocity < 0
                         <=> getPipeCollisionType(y, s.pipes[first]) = "bottom"]_vars

\* a collision with two pipes of opposite classification, the earlier one
\* "top", the later one "bottom", has bounced the bird downwards
C24_Witness ==
    /\ JustCollided
    /\ ~checkBirdHitsTop(s.birdY) /\ ~checkBirdHitsBottom(s.birdY)
    /\ Len(s.pipes) = 2
    /\ \A i \in 1..2 : checkBirdHitsPipe(s.birdY, BeforeMove(s.pipes[i]))
    /\ getPipeCollisionType(s.birdY, BeforeMove(s.pipes[1])) = "top"
    /\ getPipeCollisionType(s.birdY, BeforeMove(s.pipes[2])) = "bottom"
    /\ s.birdVelocity > 0

\* Space every 31 ticks from the start keeps the bird between y = 123 and
\* y = 185 for the whole play
Hover == {31 * k : k \in 0..11}

\* one pipe due at time 0, one between two ticks, one on a tick
LevelWindow == Header \o "\n0.5,1,0\n0.5,1,0.05\n0.5,1,0.1\n"

\* two pipes a second apart: the first leaves the screen before the second
\* is passed
LevelApart == Header \o "\n0.5,1,0.04\n0.5,1,1.04\n"

\* two pipes close together
LevelClose == Header \o "\n0.5,1,0.04\n0.5,1,0.11\n"

WindowPlays ==
    { [text |-> LevelWindow, flaps |-> Hover],
      [text |-> LevelApart,  flaps |-> Hover],
      [text |-> LevelClose,  flaps |-> Hover],
      [text |-> LevelClose,  flaps |-> {}],
      [text |-> LevelNarrow, flaps |-> {126, 252}] }

\* `spawned` records the ids admitted by updatePipes in the current run,
\* `passedIds` the ids marked passed in the current run
WindowInit ==
    \E play \in WindowPlays :
        /\ csvContents = play.text
        /\ script = play.flaps
        /\ started = FALSE
        /\ s = windowInitialState
        /\ allPipes = << >>
        /\ now = 0
        /\ spawned = << >>
        /\ passedIds = {}
        /\ nFlap = 0
        /\ nPause = 0
        /\ nRestart = 0

WindowTick ==
    /\ started
    /\ now < WindowTicks
    /\ ~flapPending
    /\ s' = windowTick(allPipes, s)
    /\ now' = now + 1
    /\ spawned' = IF s.gameEnd THEN spawned
                  ELSE LET new == newPipes(s.pipes, allPipes, s'.gameTime)
                       IN  spawned \o [i \in 1..Len(new) |-> new[i].id]
    /\ passedIds' = passedIds \cup visiblePassed(s'.pipes)
    /\ UNCHANGED << csvContents, script, started, allPipes, nFlap, nPause, nRestart >>

\* a keydown of KeyR
WindowRestart ==
    /\ started
    /\ keyTime
    /\ nRestart < MaxRestarts
    /\ s' = windowRestart(s)
    /\ nRestart' = IF s.gameEnd THEN nRestart + 1 ELSE nRestart
    /\ spawned' = IF s.gameEnd THEN << >> ELSE spawned
    /\ passedIds' = IF s.gameEnd THEN {} ELSE passedIds
    /\ UNCHANGED << csvContents, script, started, allPipes, now, nFlap, nPause >>

WindowNext ==
    \/ Click
    \/ WindowTick
    \/ ScriptedFlap
    \/ WindowRestart

WindowSpec == WindowInit /\ [][WindowNext]_vars

\* the window of a pipe lies behind the game time: time + tick <= gameTime
WindowClosed(pipe) ==
    DGeq(s.gameTime, DAdd(DFromMilli(pipe.time), tickSeconds))

\* C25: every pipe of the level table, also one due at time 0 or between
\* two ticks, has entered the visible set once by the time its spawn window
\* lies behind the game time, and no two visible pipes share an id
C25_SpawnedOnce ==
    /\ \A i \in 1..Len(allPipes) :
          /\ Cardinality({k \in 1..Len(spawned) : spawned[k] = allPipes[i].id}) <= 1
          /\ WindowClosed(allPipes[i]) => allPipes[i].id \in Range(spawned)
    /\ \A i, j \in 1..Len(s.pipes) : s.pipes[i].id = s.pipes[j].id => i = j

\* C26: in the time-window variant the run has ended as soon as every pipe
\* of the level table has been marked passed in this run, also when an
\* earlier pipe has left the screen before the last one is passed
C26_Completion ==
    Len(allPipes) > 0 /\ passedIds = {allPipes[i].id : i \in 1..Len(allPipes)}
        => s.gameEnd

\* C27: once the game has ended, every tick, flap, pause toggle and spawn
\* leaves it ended with lives, score, gameTime and currentPath unchanged,
\* and only the restart reducer produces a state that is not ended
C27_Absorbing ==
    [][s.gameEnd =>
        /\ RunEvent => /\ s'.gameEnd
                       /\ s'.lives = s.lives
                       /\ s'.score = s.score
                       /\ s'.gameTime = s.gameTime
                       /\ s'.currentPath = s.currentPath
        /\ ~s'.gameEnd => Restart /\ s' = restart(s)]_vars

\* an ended first run that has since taken a flap, a pause toggle, a spawn
\* and ticks
C27_Witness ==
    /\ s.gameEnd
    /\ nRestart = 0
    /\ s.paused
    /\ s.birdVelocity = FLAP_STRENGTH * Unit
    /\ \E i \in 1..Len(s.pipes) : s.pipes[i].x = CANVAS_WIDTH
    /\ now > Len(s.currentPath)

\* every pipe of the level table is visible and has moved past the bird
AllBehind ==
    /\ Len(spawned) = Len(allPipes)
    /\ Len(s.pipes) = Len(allPipes)
    /\ \A i \in 1..Len(s.pipes) : s.pipes[i].x + PIPE_WIDTH < BIRD_X

C29_RespawnAfterRestart ==
    nRestart >= 1 =>
        \A i \in 1..Len(allPipes) :
            allPipes[i].time < Len(s.currentPath) * TICK_RATE_MS
                => \E j \in 1..Len(s.pipes) : s.pipes[j].id = allPipes[i].id

\* C30: a spawn is applied in every state, paused and ended ones included:
\* it appends its pipe, at x = CANVAS_WIDTH and not passed, behind the
\* visible pipes and changes no other field; ticks of a paused or ended
\* game leave the visible pipes where they are
C30_Spawn ==
    [][/\ \A i \in 1..Len(allPipes) :
              PipeSpawn(i) =>
                  /\ s' = [s EXCEPT !.pipes = Append(s.pipes, allPipes[i])]
                  /\ s'.pipes[Len(s'.pipes)].x = CANVAS_WIDTH
                  /\ ~s'.pipes[Len(s'.pipes)].passed
       /\ Tick /\ frozen(s) => s'.pipes = s.pipes]_vars

\* a paused game in which two pipes, spawned two ticks apart, both sit at
\* the right edge
C30_Witness ==
    /\ s.paused
    /\ ~s.gameEnd
    /\ now >= 2
    /\ Len(s.pipes) = 2
    /\ s.pipes[1].time # s.pipes[2].time
    /\ s.pipes[1].x = CANVAS_WIDTH
    /\ s.pipes[2].x = CANVAS_WIDTH

\* C31: in every reachable state lives is one of 0, 1, 2, 3 (never
\* negative), and a state with no lives left is ended
C31_LivesRange ==
    /\ s.lives \in 0..INITIAL_LIVES
    /\ s.lives = 0 => s.gameEnd

\* the last life was lost and the interval has emitted since, with a flap
\* on the way
C31_Witness ==
    /\ s.lives = 0
    /\ s.gameEnd
    /\ ~s.paused
    /\ nPause = 0
    /\ nFlap > 0
    /\ now > Len(s.currentPath)

\* (1103515245 * seed + 12345) mod 2^31 applied k times to the initial seed
SeedAfter(k) ==
    IF k = 0 THEN INITIAL_SEED
    ELSE IF k = 1 THEN hash_exact(INITIAL_SEED)
    ELSE IF k = 2 THEN hash_exact(hash_exact(INITIAL_SEED))
    ELSE hash_exact(hash_exact(hash_exact(INITIAL_SEED)))

\* C32: in every reachable state rngSeed is the hash applied
\* (3 - lives) times to the initial seed 12345; the seed changes only on a
\* collision tick and on a restart of an ended game, which resets it
C32_SeedChain ==
    /\ [](s.rngSeed = SeedAfter(INITIAL_LIVES - s.lives))
    /\ [][s'.rngSeed # s.rngSeed =>
            \/ Tick /\ s'.lives = s.lives - 1
            \/ Restart /\ s.gameEnd /\ s'.rngSeed = INITIAL_SEED]_vars

\* C33: a reachable state whose birdY lies outside [0, 370] was produced by
\* a collision tick and no running tick has been processed since, so that
\* invulnerableUntil = gameTime + 2 s; in every other state 0 <= birdY <= 370
C33_OutOfRange ==
    s.birdY < 0 \/ s.birdY > (CANVAS_HEIGHT - BIRB_HEIGHT) * Unit
        => s.invulnerableUntil = DAdd(s.gameTime, DFromMilli(INVULNERABLE_MS))

\* the bird sits above the top edge after a collision there, and a flap has
\* been processed since
C33_Witness ==
    /\ s.birdY < 0
    /\ s.birdVelocity = FLAP_STRENGTH * Unit
    /\ s.lives < INITIAL_LIVES

====
